---- MODULE Spec2Model ----
(***************************************************************************)
(* Model of plugins/inventory/tfstate_inventory.py: the Terraform state    *)
(* inventory plugin.  Python dicts are functions whose DOMAIN is the set   *)
(* of keys present, lists are sequences, and a str whose characters the    *)
(* code looks at (a glob, a host name, a resource mode) is a sequence of   *)
(* one-character strings.  An operation that can raise returns a record    *)
(* with the exception's name in "raised" ("" when it returns normally).    *)
(***************************************************************************)
EXTENDS Integers, Sequences, FiniteSets, TLC

VARIABLES
    tfstates,      \* the document list handed to TFStateInventory(tfstates)
    cls_hosts,     \* TFStateInventory.hosts, the class attribute list
    cls_outputs,   \* TFStateInventory.outputs, the class attribute dict
    raised,        \* the exception the last operation ended with, "" if none
    history,       \* one record per TFStateInventory construction, in order
    glob,          \* the argument of glob_to_regex
    pattern,       \* what glob_to_regex(glob) returned or raised
    hostname,      \* the first argument of get_host_group_name
    postfix,       \* the second argument of get_host_group_name
    group_name,    \* what get_host_group_name(hostname, postfix) returned
    config,        \* the options of the inventory configuration file
    self_config,   \* self.config: what read_config returned, {} before it
    environ,       \* os.environ: variable name -> value, for the set ones
    runtime,       \* the interpreter: is boto3 importable, is pathlib strict
    store,         \* the entries under local_path, or the bucket's objects
    inventory,     \* the sink: the hosts and groups self.inventory knows
    calls,         \* the self.inventory calls of the last parse, in order
    io,            \* the store reads of the last parse, in order
    warnings       \* the display.warning calls of the last parse, in order

extract_vars == <<tfstates, cls_hosts, cls_outputs, raised, history>>
glob_vars == <<glob, pattern>>
name_vars == <<hostname, postfix, group_name>>
parse_vars == <<config, self_config, environ, runtime, store, inventory,
                calls, io, warnings>>
vars == <<extract_vars, glob_vars, name_vars, parse_vars>>

(***************************** Python values ******************************)

None == "<None>"
\* None where a str kept as a character sequence is expected
NoneStr == <<None>>
NoRaise == ""

EmptyDict == [k \in {} |-> k]

\* dict.get(key, default)
Get(d, key, default) == IF key \in DOMAIN d THEN d[key] ELSE default

\* `s in t` for two str values: s occurs in t as a contiguous run
IsSubstring(s, t) ==
    \E i \in 0..(Len(t) - Len(s)) : SubSeq(t, i + 1, i + Len(s)) = s

\* truth value of an optional str: None and '' are false
Truthy(x) == x # None /\ x # ""

\* The characters \\w matches, among those the inputs are drawn from
WordChars == {"a", "b", "g", "n", "0", "1", "_"}
Digits == {"0", "1"}

\* the sequences over alphabet of length at most n
Strings(alphabet, n) == UNION {[1..k -> alphabet] : k \in 0..n}

\* str.split(sep) for a one-character sep
RECURSIVE Split(_, _)
Split(s, sep) ==
    IF \A i \in 1..Len(s) : s[i] # sep THEN <<s>>
    ELSE LET i == CHOOSE j \in 1..Len(s) :
                      s[j] = sep /\ \A k \in 1..(j - 1) : s[k] # sep
         IN  <<SubSeq(s, 1, i - 1)>> \o Split(SubSeq(s, i + 1, Len(s)), sep)

\* str.replace(old, new): every non-overlapping occurrence, left to right
RECURSIVE Replace(_, _, _)
Replace(s, old, new) ==
    IF Len(s) < Len(old) THEN s
    ELSE IF SubSeq(s, 1, Len(old)) = old
         THEN new \o Replace(SubSeq(s, Len(old) + 1, Len(s)), old, new)
         ELSE <<s[1]>> \o Replace(SubSeq(s, 2, Len(s)), old, new)

\* sep.join(parts)
RECURSIVE Join(_, _)
Join(parts, sep) ==
    IF Len(parts) = 0 THEN << >>
    ELSE IF Len(parts) = 1 THEN parts[1]
    ELSE parts[1] \o sep \o Join(Tail(parts), sep)

(************************ TFStateInventory constants **********************)

LV == "provider[\"registry.terraform.io/dmacvicar/libvirt\"]"
YC == "provider[\"registry.terraform.io/yandex-cloud/yandex\"]"

\* RESOURCE_MODES: set = ('managed') is the str 'managed', not a tuple
RESOURCE_MODES == <<"m", "a", "n", "a", "g", "e", "d">>
RESOURCE_TYPES == {"libvirt_domain", "yandex_compute_instance"}
RESOURCE_PROVIDERS == {LV, YC}

\* IP_ADDRESS_KEYS: set = ('network_id') is the str 'network_id'; the for
\* loop over it yields its characters
IP_ADDRESS_KEYS == <<"n", "e", "t", "w", "o", "r", "k", "_", "i", "d">>
NAT_IP_ADDRESS_KEYS == <<"macvtap", "bridge", "vepa", "passthrough">>

TFStateHost(name, ip_address, nat_ip_address) ==
    [name |-> name, ip_address |-> ip_address,
     nat_ip_address |-> nat_ip_address]

(****************************** _parse_lv_host ****************************)

Raise == "<raise>"

\* One `for key in KEYS` loop of _parse_lv_host over one interface: the
\* address found so far, or Raise when interface['addresses'][0] raises
\* KeyError or IndexError.
RECURSIVE LvScanKeys(_, _, _, _)
LvScanKeys(interface, keys, i, address) ==
    IF i > Len(keys) THEN address
    ELSE IF Get(interface, keys[i], "") # "" /\ address = None
         THEN IF "addresses" \notin DOMAIN interface THEN Raise
              ELSE IF Len(interface["addresses"]) = 0 THEN Raise
              ELSE LvScanKeys(interface, keys, i + 1,
                              interface["addresses"][1])
         ELSE LvScanKeys(interface, keys, i + 1, address)

\* `for interface in network_interfaces` of _parse_lv_host, from interface i
RECURSIVE LvScanInterfaces(_, _, _, _)
LvScanInterfaces(network_interfaces, i, ip_address, nat_ip_address) ==
    IF i > Len(network_interfaces)
    THEN [ip_address |-> ip_address, nat_ip_address |-> nat_ip_address,
          raised |-> FALSE]
    ELSE LET interface == network_interfaces[i]
             ip == LvScanKeys(interface, IP_ADDRESS_KEYS, 1, ip_address)
         IN  IF ip = Raise
             THEN [ip_address |-> None, nat_ip_address |-> None,
                   raised |-> TRUE]
             ELSE LET nat == LvScanKeys(interface, NAT_IP_ADDRESS_KEYS, 1,
                                        nat_ip_address)
                  IN  IF nat = Raise
                      THEN [ip_address |-> None, nat_ip_address |-> None,
                            raised |-> TRUE]
                      ELSE IF Truthy(ip) /\ Truthy(nat)
                           THEN [ip_address |-> ip, nat_ip_address |-> nat,
                                 raised |-> FALSE]
                           ELSE LvScanInterfaces(network_interfaces, i + 1,
                                                 ip, nat)

\* _parse_lv_host: <<host>>, or << >> for None
parse_lv_host(instance_data) ==
    IF "attributes" \notin DOMAIN instance_data THEN << >>
    ELSE LET attributes == instance_data["attributes"] IN
    IF "network_interface" \notin DOMAIN attributes THEN << >>
    ELSE LET network_interfaces == attributes["network_interface"] IN
    IF Len(network_interfaces) = 0 THEN << >>
    ELSE IF "hostname" \notin DOMAIN network_interfaces[1] THEN << >>
    ELSE LET name == network_interfaces[1]["hostname"]
             r == LvScanInterfaces(network_interfaces, 1, None, None)
         IN  IF r.raised THEN << >>
             ELSE <<TFStateHost(name, r.ip_address, r.nat_ip_address)>>

(****************************** _parse_yc_host ****************************)

RECURSIVE YcScanInterfaces(_, _, _, _)
YcScanInterfaces(network_interfaces, i, ip_address, nat_ip_address) ==
    IF i > Len(network_interfaces)
    THEN [ip_address |-> ip_address, nat_ip_address |-> nat_ip_address,
          raised |-> FALSE]
    ELSE LET interface == network_interfaces[i] IN
    IF "ip_address" \notin DOMAIN interface
    THEN [ip_address |-> None, nat_ip_address |-> None, raised |-> TRUE]
    ELSE LET ip == IF Truthy(interface["ip_address"]) /\ ip_address = None
                   THEN interface["ip_address"] ELSE ip_address IN
    IF "nat_ip_address" \notin DOMAIN interface
    THEN [ip_address |-> None, nat_ip_address |-> None, raised |-> TRUE]
    ELSE LET nat == IF Truthy(interface["nat_ip_address"])
                       /\ nat_ip_address = None
                    THEN interface["nat_ip_address"] ELSE nat_ip_address IN
    IF Truthy(ip) /\ Truthy(nat)
    THEN [ip_address |-> ip, nat_ip_address |-> nat, raised |-> FALSE]
    ELSE YcScanInterfaces(network_interfaces, i + 1, ip, nat)

\* _parse_yc_host: <<host>>, or << >> for None
parse_yc_host(instance_data) ==
    IF "attributes" \notin DOMAIN instance_data THEN << >>
    ELSE LET attributes == instance_data["attributes"] IN
    IF "network_interface" \notin DOMAIN attributes THEN << >>
    ELSE IF "hostname" \notin DOMAIN attributes THEN << >>
    ELSE LET r == YcScanInterfaces(attributes["network_interface"], 1,
                                   None, None)
         IN  IF r.raised THEN << >>
             ELSE <<TFStateHost(attributes["hostname"], r.ip_address,
                                r.nat_ip_address)>>

\* _parse_host: dispatch on the provider string
parse_host(instance_data, provider) ==
    IF provider = LV THEN parse_lv_host(instance_data)
    ELSE IF provider = YC THEN parse_yc_host(instance_data)
    ELSE << >>

(****************************** _collect_hosts ****************************)

\* The filter of _collect_hosts: TRUE when the resource is skipped, either
\* by `continue` or by the KeyError the try block catches.  The `or` chain
\* reads 'mode', 'type' and the provider left to right and stops at the
\* first operand that is true.
ResourceSkipped(resource) ==
    IF "provider" \notin DOMAIN resource THEN TRUE
    ELSE IF "mode" \notin DOMAIN resource THEN TRUE
    ELSE IF ~IsSubstring(resource["mode"], RESOURCE_MODES) THEN TRUE
    ELSE IF "type" \notin DOMAIN resource THEN TRUE
    ELSE IF resource["type"] \notin RESOURCE_TYPES THEN TRUE
    ELSE resource["provider"] \notin RESOURCE_PROVIDERS

\* `for instance_data in resource['instances']`: the hosts appended
RECURSIVE InstancesHosts(_, _, _)
InstancesHosts(instances, provider, i) ==
    IF i > Len(instances) THEN << >>
    ELSE parse_host(instances[i], provider)
         \o InstancesHosts(instances, provider, i + 1)

\* `for resource in tfstate['resources']`, from resource i, appending to
\* hosts; resource['instances'] is read outside the try block
RECURSIVE ResourcesHosts(_, _, _)
ResourcesHosts(resources, i, hosts) ==
    IF i > Len(resources) THEN [hosts |-> hosts, raised |-> NoRaise]
    ELSE LET resource == resources[i] IN
    IF ResourceSkipped(resource) THEN ResourcesHosts(resources, i + 1, hosts)
    ELSE IF "instances" \notin DOMAIN resource
    THEN [hosts |-> hosts, raised |-> "KeyError"]
    ELSE ResourcesHosts(resources, i + 1,
             hosts \o InstancesHosts(resource["instances"],
                                     resource["provider"], 1))

\* _collect_hosts: `for tfstate in self.tfstates`, from document i, appending
\* to self.hosts; tfstate['resources'] is read outside any try block
RECURSIVE collect_hosts(_, _, _)
collect_hosts(hosts, docs, i) ==
    IF i > Len(docs) THEN [hosts |-> hosts, raised |-> NoRaise]
    ELSE IF "resources" \notin DOMAIN docs[i]
    THEN [hosts |-> hosts, raised |-> "KeyError"]
    ELSE LET r == ResourcesHosts(docs[i]["resources"], 1, hosts) IN
         IF r.raised # NoRaise THEN r
         ELSE collect_hosts(r.hosts, docs, i + 1)

(***************************** _collect_outputs ***************************)

\* `self.outputs |= {key: value_dict['value']}` for every key of one
\* document's outputs; an entry without 'value' raises KeyError and is
\* skipped
MergeOutputs(outputs, doc_outputs) ==
    LET set == {k \in DOMAIN doc_outputs : "value" \in DOMAIN doc_outputs[k]}
    IN  [k \in DOMAIN outputs \cup set |->
            IF k \in set THEN doc_outputs[k]["value"] ELSE outputs[k]]

\* _collect_outputs: `for tfstate in self.tfstates`, from document i
RECURSIVE collect_outputs(_, _, _)
collect_outputs(outputs, docs, i) ==
    IF i > Len(docs) THEN outputs
    ELSE collect_outputs(
             MergeOutputs(outputs, Get(docs[i], "outputs", EmptyDict)),
             docs, i + 1)

(*************************** sanitize_group_name **************************)

\* sub(r'[^\w]', '_', group_name)
sanitize_group_name(name) ==
    [i \in 1..Len(name) |-> IF name[i] \in WordChars THEN name[i] ELSE "_"]

(*************************** get_host_group_name **************************)

\* TRUE when r'(?:\-\d*)?$' matches hostname at offset p (0-based) with a
\* non-empty group: a dash at p and only digits from there to the end
DashDigitsAt(name, p) ==
    /\ p < Len(name)
    /\ name[p + 1] = "-"
    /\ \A k \in (p + 2)..Len(name) : name[k] \in Digits

\* sub(r'(?:\-\d*)?$', '', hostname): the leftmost match is the first
\* offset where a dash is followed by digits only up to the end; without
\* one the pattern matches only the empty string at the end
StripSuffix(name) ==
    IF \E p \in 0..(Len(name) - 1) : DashDigitsAt(name, p)
    THEN LET p == CHOOSE q \in 0..(Len(name) - 1) :
                      /\ DashDigitsAt(name, q)
                      /\ \A r \in 0..(q - 1) : ~DashDigitsAt(name, r)
         IN  SubSeq(name, 1, p)
    ELSE name

\* `if postfix:` is false for None and for ''
get_host_group_name(name, post) ==
    LET stripped == StripSuffix(name)
        joined == IF post # NoneStr /\ post # << >> THEN stripped \o post
                  ELSE stripped
    IN  sanitize_group_name(joined)

(******************************* glob_to_regex ****************************)

escape_symbols == <<"\\", ".", ",", "^", "$", "+", "?", "{", "}">>
separator == "/"
DoubleStar == <<"*", "*">>

\* the fragments '**' and '*' are replaced by
AnyPath == <<"[", "\\", "w", "\\", "s", "\\", "-", "\\", ".", "\\", "/",
             "]", "*">>
AnyName == <<"[", "\\", "w", "\\", "s", "\\", "-", "\\", ".", "]", "*">>

\* the '**' check looking only at the start of the part
InvalidPartAtStart(part) ==
    Len(part) > 2 /\ SubSeq(part, 1, 2) = DoubleStar

\* `'**' in part and part != '**'`
InvalidPart(part) == IsSubstring(DoubleStar, part) /\ part # DoubleStar

\* `for symbol in escape_symbols`: part.replace(symbol, '\\' + symbol)
RECURSIVE EscapePart(_, _)
EscapePart(part, i) ==
    IF i > Len(escape_symbols) THEN part
    ELSE EscapePart(
             Replace(part, <<escape_symbols[i]>>, <<"\\", escape_symbols[i]>>),
             i + 1)

\* the body of `for part in glob_parts` after the '**' check
TranslatePart(part) ==
    LET escaped == EscapePart(part, 1)
    IN  IF IsSubstring(DoubleStar, escaped)
        THEN Replace(escaped, DoubleStar, AnyPath)
        ELSE IF IsSubstring(<<"*">>, escaped)
             THEN Replace(escaped, <<"*">>, AnyName)
             ELSE escaped

\* the regular expression source glob_to_regex builds for parts that all
\* pass the '**' check
RegexSource(glob_parts) ==
    <<"^">>
    \o Join([i \in 1..Len(glob_parts) |-> TranslatePart(glob_parts[i])],
            <<"\\", separator>>)
    \o <<"$">>

(******************** re.compile and Pattern.match ************************)

\* The members of a character class body: \w is the word characters, \s a
\* blank, any other escaped or plain character itself
RECURSIVE ClassMembers(_)
ClassMembers(body) ==
    IF Len(body) = 0 THEN {}
    ELSE IF body[1] = "\\" /\ Len(body) >= 2
         THEN (IF body[2] = "w" THEN WordChars
               ELSE IF body[2] = "s" THEN {" "}
               ELSE {body[2]})
              \cup ClassMembers(SubSeq(body, 3, Len(body)))
         ELSE {body[1]} \cup ClassMembers(Tail(body))

\* the offset of the `]` that closes the class opened before src[i], 0 when
\* the set is unterminated
RECURSIVE ClassEnd(_, _)
ClassEnd(src, i) ==
    IF i > Len(src) THEN 0
    ELSE IF src[i] = "\\" THEN ClassEnd(src, i + 2)
    ELSE IF src[i] = "]" THEN i
    ELSE ClassEnd(src, i + 1)

\* re's parser on the source from offset i with `depth` groups open: the
\* token list, and ok FALSE for re.error (an unbalanced parenthesis, an
\* unterminated subpattern or character set, a dangling backslash or
\* quantifier)
ReError == [ok |-> FALSE, toks |-> << >>]

RECURSIVE Tokens(_, _, _)
Tokens(src, i, depth) ==
    IF i > Len(src)
    THEN IF depth = 0 THEN [ok |-> TRUE, toks |-> << >>] ELSE ReError
    ELSE LET c == src[i]
             rest(n, d, tok) ==
                 LET t == Tokens(src, n, d)
                 IN  IF t.ok THEN [ok |-> TRUE, toks |-> <<tok>> \o t.toks]
                     ELSE ReError
         IN
         IF c = "\\"
         THEN IF i = Len(src) THEN ReError
              ELSE rest(i + 2, depth, <<"lit", {src[i + 1]}>>)
         ELSE IF c = "["
         THEN LET e == ClassEnd(src, i + 1) IN
              IF e = 0 THEN ReError
              ELSE LET set == ClassMembers(SubSeq(src, i + 1, e - 1)) IN
                   IF e < Len(src) /\ src[e + 1] = "*"
                   THEN rest(e + 2, depth, <<"star", set>>)
                   ELSE rest(e + 1, depth, <<"lit", set>>)
         ELSE IF c = "(" THEN rest(i + 1, depth + 1, <<"group", {}>>)
         ELSE IF c = ")"
         THEN IF depth = 0 THEN ReError
              ELSE rest(i + 1, depth - 1, <<"group", {}>>)
         ELSE IF c = "^" THEN rest(i + 1, depth, <<"bol", {}>>)
         ELSE IF c = "$" THEN rest(i + 1, depth, <<"eol", {}>>)
         ELSE IF c = "*" THEN ReError
         ELSE rest(i + 1, depth, <<"lit", {c}>>)

\* re.compile(pattern)
re_compile(src) ==
    LET t == Tokens(src, 1, 0)
    IN  IF t.ok THEN [raised |-> NoRaise, tokens |-> t.toks]
        ELSE [raised |-> "re.error", tokens |-> << >>]

\* Pattern.match(candidate): the tokens from i match candidate from j
RECURSIVE MatchFrom(_, _, _, _)
MatchFrom(tokens, i, candidate, j) ==
    IF i > Len(tokens) THEN TRUE
    ELSE LET kind == tokens[i][1]
             set == tokens[i][2]
         IN
         IF kind = "lit"
         THEN /\ j <= Len(candidate)
              /\ candidate[j] \in set
              /\ MatchFrom(tokens, i + 1, candidate, j + 1)
         ELSE IF kind = "star"
         THEN \E k \in j..(Len(candidate) + 1) :
                 /\ \A m \in j..(k - 1) : candidate[m] \in set
                 /\ MatchFrom(tokens, i + 1, candidate, k)
         ELSE IF kind = "bol"
         THEN j = 1 /\ MatchFrom(tokens, i + 1, candidate, j)
         ELSE IF kind = "eol"
         THEN j = Len(candidate) + 1
              /\ MatchFrom(tokens, i + 1, candidate, j)
         ELSE MatchFrom(tokens, i + 1, candidate, j)

Matches(compiled, candidate) == MatchFrom(compiled.tokens, 1, candidate, 1)

\* glob_to_regex: the '**' check of a part raises before any later part is
\* read and before re.compile runs
glob_to_regex(g) ==
    LET glob_parts == Split(g, separator)
    IN  IF \E i \in 1..Len(glob_parts) : InvalidPart(glob_parts[i])
        THEN [raised |-> "AnsibleParserError", tokens |-> << >>]
        ELSE re_compile(RegexSource(glob_parts))

(******************************** bounds **********************************)

MaxRuns == 2
MaxGlobLen == 4
MaxNameLen == 4
MaxInterfaces == 2
MaxInstances == 3
MaxResources == 2
MaxDocs == 2

(*************************** TFStateInventory() ***************************)

\* TFStateInventory.__init__: neither self.hosts nor self.outputs is ever
\* rebound to a fresh object, so append and |= act on the class attributes
NewTFStateInventory(hosts, outputs, docs) ==
    LET o == collect_outputs(outputs, docs, 1)
        h == collect_hosts(hosts, docs, 1)
    IN  [hosts |-> h.hosts, outputs |-> o, raised |-> h.raised]

\* what history keeps of one run
Run(hosts, outputs, exception, sink_calls) ==
    [hosts |-> hosts, outputs |-> outputs, raised |-> exception,
     calls |-> sink_calls]

Construct ==
    /\ Len(history) < MaxRuns
    /\ LET inv == NewTFStateInventory(cls_hosts, cls_outputs, tfstates)
       IN  /\ cls_hosts' = inv.hosts
           /\ cls_outputs' = inv.outputs
           /\ raised' = inv.raised
           /\ history' = Append(history, Run(inv.hosts, inv.outputs,
                                             inv.raised, << >>))
    /\ UNCHANGED <<tfstates, glob_vars, name_vars, parse_vars>>

(******************************* read_config ******************************)

S3_ENV_MAP ==
    << <<"endpoint", <<"TFSTATE_S3_ENDPOINT">> >>,
       <<"region", <<"TFSTATE_S3_REGION">> >>,
       <<"bucket", <<"TFSTATE_S3_BUCKET">> >>,
       <<"access_key", <<"TFSTATE_S3_ACCESS_KEY", "AWS_ACCESS_KEY_ID">> >>,
       <<"secret_key", <<"TFSTATE_S3_SECRET_KEY", "AWS_SECRET_ACCESS_KEY">> >> >>

S3Keys == {S3_ENV_MAP[i][1] : i \in DOMAIN S3_ENV_MAP}

\* `for env in envs`: the first getenv(env) that is set and not empty; the
\* for loop's else branch gives None
RECURSIVE FirstEnv(_, _, _)
FirstEnv(env, envs, i) ==
    IF i > Len(envs) THEN None
    ELSE IF Truthy(Get(env, envs[i], None)) THEN env[envs[i]]
    ELSE FirstEnv(env, envs, i + 1)

\* the s3_config dict read_config builds from the environment alone
EnvS3Config(env) ==
    [key \in S3Keys |->
        LET i == CHOOSE j \in DOMAIN S3_ENV_MAP : S3_ENV_MAP[j][1] = key
        IN  FirstEnv(env, S3_ENV_MAP[i][2], 1)]

\* d |= other
Update(d, other) ==
    [k \in DOMAIN d \cup DOMAIN other |->
        IF k \in DOMAIN other THEN other[k] ELSE d[k]]

\* read_config: options.s3_config is << >> when the file gives none (None,
\* whose |= raises the TypeError that is caught) and <<dict>> otherwise
read_config(options, env) ==
    LET s3_config == EnvS3Config(env)
    IN  [options EXCEPT !.s3_config =
            IF options.s3_config = << >> THEN s3_config
            ELSE Update(options.s3_config[1], s3_config)]

(**************************** get_local_tfstates **************************)

IoEvent(op, key) == [op |-> op, key |-> key]

\* json.loads of a store entry's content: << >> when it raises
\* JSONDecodeError, <<document>> otherwise
Loads(entry) == entry.body

\* fnmatch of one path component against a pattern component
RECURSIVE FnMatch(_, _)
FnMatch(pat, name) ==
    IF Len(pat) = 0 THEN Len(name) = 0
    ELSE IF pat[1] = "*"
         THEN \/ FnMatch(Tail(pat), name)
              \/ Len(name) > 0 /\ FnMatch(pat, Tail(name))
         ELSE /\ Len(name) > 0
              /\ pat[1] = name[1]
              /\ FnMatch(Tail(pat), Tail(name))

\* pathlib's selectors: a '**' component spans zero or more directories,
\* any other component is matched by fnmatch against one path component
RECURSIVE PathMatch(_, _)
PathMatch(pattern_parts, path_parts) ==
    IF Len(pattern_parts) = 0 THEN Len(path_parts) = 0
    ELSE IF pattern_parts[1] = DoubleStar
         THEN \/ PathMatch(Tail(pattern_parts), path_parts)
              \/ Len(path_parts) > 1 /\ PathMatch(pattern_parts, Tail(path_parts))
         ELSE /\ Len(path_parts) > 0
              /\ FnMatch(pattern_parts[1], path_parts[1])
              /\ PathMatch(Tail(pattern_parts), Tail(path_parts))

\* the exception base_path.glob(search_pattern) raises, NoRaise if none.
\* pathlib before Python 3.13 rejects '**' inside a component with
\* ValueError (strict); from 3.13 on it reads it as '*'
PathlibRaises(search_pattern, strict) ==
    IF Len(search_pattern) = 0 THEN "ValueError"
    ELSE IF search_pattern[1] = separator THEN "NotImplementedError"
    ELSE IF strict /\ \E i \in DOMAIN Split(search_pattern, separator) :
                         InvalidPart(Split(search_pattern, separator)[i])
         THEN "ValueError"
         ELSE NoRaise

\* `for fp in base_path.glob(search_pattern)`, from entry i of the store
RECURSIVE LocalLoop(_, _, _)
LocalLoop(entries, search_pattern, i) ==
    IF i > Len(entries) THEN [tfstates |-> << >>, io |-> << >>]
    ELSE LET rest == LocalLoop(entries, search_pattern, i + 1)
             entry == entries[i]
         IN
         IF ~PathMatch(Split(search_pattern, separator),
                       Split(entry.key, separator))
         THEN rest
         ELSE IF entry.kind # "file" THEN rest
         ELSE [tfstates |-> Loads(entry) \o rest.tfstates,
               io |-> <<IoEvent("open", entry.key)>> \o rest.io]

get_local_tfstates(entries, search_pattern, strict) ==
    LET e == PathlibRaises(search_pattern, strict)
    IN  IF e # NoRaise THEN [tfstates |-> << >>, io |-> << >>, raised |-> e]
        ELSE LET r == LocalLoop(entries, search_pattern, 1)
             IN  [tfstates |-> r.tfstates, io |-> r.io, raised |-> NoRaise]

(****************************** get_s3_tfstates ***************************)

\* `for key in object_keys`: get_object and json.loads for every object
\* whose key the pattern matches, from object i of the bucket
RECURSIVE S3Loop(_, _, _)
S3Loop(objects, compiled, i) ==
    IF i > Len(objects) THEN [tfstates |-> << >>, io |-> << >>]
    ELSE LET rest == S3Loop(objects, compiled, i + 1)
             object == objects[i]
         IN
         IF ~Matches(compiled, object.key) THEN rest
         ELSE [tfstates |-> Loads(object) \o rest.tfstates,
               io |-> <<IoEvent("get_object", object.key)>> \o rest.io]

\* get_s3_tfstates: list_objects answers without 'Contents' for a bucket
\* that holds no object
get_s3_tfstates(s3_config, search_pattern, objects, boto3) ==
    IF ~boto3
    THEN [tfstates |-> << >>, io |-> << >>, raised |-> "AnsibleError"]
    ELSE IF s3_config["endpoint"] = None
    THEN [tfstates |-> << >>, io |-> << >>, raised |-> "AttributeError"]
    ELSE LET compiled == glob_to_regex(search_pattern) IN
    IF compiled.raised # NoRaise
    THEN [tfstates |-> << >>, io |-> << >>, raised |-> compiled.raised]
    ELSE IF Len(objects) = 0
    THEN [tfstates |-> << >>, io |-> <<IoEvent("list_objects", << >>)>>,
          raised |-> "KeyError"]
    ELSE LET r == S3Loop(objects, compiled, 1)
         IN  [tfstates |-> r.tfstates,
              io |-> <<IoEvent("list_objects", << >>)>> \o r.io,
              raised |-> NoRaise]

(******************************* the sink *********************************)

\* One self.inventory call: ok is FALSE when the sink raised AnsibleError
Call(op, group, name, key, value, ok) ==
    [op |-> op, group |-> group, name |-> name, key |-> key,
     value |-> value, ok |-> ok]

\* self.inventory.add_host(name)
SinkAddHost(acc, name) ==
    [acc EXCEPT !.inventory.hosts = @ \cup {name},
                !.calls = Append(@, Call("add_host", << >>, name, "", "", TRUE))]

\* self.inventory.add_group(group)
SinkAddGroup(acc, group) ==
    [acc EXCEPT !.inventory.groups = @ \cup {group},
                !.calls = Append(@, Call("add_group", group, << >>, "", "", TRUE))]

\* self.inventory.add_child(group, name)
SinkAddChild(acc, group, name) ==
    [acc EXCEPT !.calls = Append(@, Call("add_child", group, name, "", "", TRUE))]

\* the sink knows `name` as a group or as a host
SinkKnows(acc, name) ==
    name \in acc.inventory.groups \cup acc.inventory.hosts

\* self.inventory.set_variable(name, key, value): AnsibleError for a name
\* that is neither a group nor a host
SinkSetVariable(acc, name, key, value) ==
    [acc EXCEPT !.calls = Append(@, Call("set_variable", << >>, name, key,
                                         value, SinkKnows(acc, name)))]

Warn(acc, what, name, key, why) ==
    [acc EXCEPT !.warnings =
        Append(@, [what |-> what, name |-> name, key |-> key, why |-> why])]

(******************************** _add_host *******************************)

\* _add_host skipping a host only when its address is None
add_host_unless_none(acc, host, collect_public_ips) ==
    LET ip_address == IF collect_public_ips THEN host.nat_ip_address
                      ELSE host.ip_address
    IN  IF ip_address = None THEN [acc |-> acc, added |-> FALSE]
        ELSE [acc |-> SinkSetVariable(SinkAddHost(acc, host.name), host.name,
                                      "ansible_host", ip_address),
              added |-> TRUE]

\* _add_host: the sink after it, and whether it returned True
add_host(acc, host, collect_public_ips) ==
    LET ip_address == IF collect_public_ips THEN host.nat_ip_address
                      ELSE host.ip_address
    IN  IF ~Truthy(ip_address) THEN [acc |-> acc, added |-> FALSE]
        ELSE [acc |-> SinkSetVariable(SinkAddHost(acc, host.name), host.name,
                                      "ansible_host", ip_address),
              added |-> TRUE]

\* `for host in tfstate_inventory.list_hosts()` of parse, from host i
RECURSIVE AddHosts(_, _, _, _)
AddHosts(acc, hosts, i, cfg) ==
    IF i > Len(hosts) THEN acc
    ELSE LET host == hosts[i]
             r == add_host(acc, host, cfg.collect_public_ips)
         IN  IF r.added /\ cfg.create_hosts_groups
             THEN LET group == get_host_group_name(host.name,
                                                   cfg.hosts_groups_postfix)
                  IN  AddHosts(SinkAddChild(SinkAddGroup(r.acc, group),
                                            group, host.name),
                               hosts, i + 1, cfg)
             ELSE AddHosts(r.acc, hosts, i + 1, cfg)

(********************* _add_groups_vars, _add_hosts_vars ******************)

\* the key loop leaving a binding at its first key that is not in outputs
RECURSIVE AddKeysUntilMissing(_, _, _, _, _, _)
AddKeysUntilMissing(acc, what, name, keys, i, outputs) ==
    IF i > Len(keys) THEN acc
    ELSE LET key == keys[i] IN
         IF key \notin DOMAIN outputs
         THEN Warn(acc, what, name, key, "not found in outputs")
         ELSE LET set == SinkSetVariable(acc, name, key, outputs[key]) IN
              IF SinkKnows(acc, name)
              THEN AddKeysUntilMissing(set, what, name, keys, i + 1, outputs)
              ELSE AddKeysUntilMissing(
                       Warn(set, what, name, key, "AnsibleError"),
                       what, name, keys, i + 1, outputs)

\* `for key in keys` of one binding, from key i
RECURSIVE AddKeys(_, _, _, _, _, _)
AddKeys(acc, what, name, keys, i, outputs) ==
    IF i > Len(keys) THEN acc
    ELSE LET key == keys[i] IN
         IF key \notin DOMAIN outputs
         THEN AddKeys(Warn(acc, what, name, key, "not found in outputs"),
                      what, name, keys, i + 1, outputs)
         ELSE LET set == SinkSetVariable(acc, name, key, outputs[key]) IN
              IF SinkKnows(acc, name)
              THEN AddKeys(set, what, name, keys, i + 1, outputs)
              ELSE AddKeys(Warn(set, what, name, key, "AnsibleError"),
                           what, name, keys, i + 1, outputs)

\* `for name, keys in data.items()`: data is the list of its items, in the
\* dict's order
RECURSIVE AddVars(_, _, _, _, _)
AddVars(acc, what, data, i, outputs) ==
    IF i > Len(data) THEN acc
    ELSE AddVars(AddKeys(acc, what, data[i][1], data[i][2], 1, outputs),
                 what, data, i + 1, outputs)

add_groups_vars(acc, cfg, outputs) ==
    AddVars(acc, "group", cfg.group_variables_from_output, 1, outputs)

add_hosts_vars(acc, cfg, outputs) ==
    AddVars(acc, "host", cfg.host_variables_from_output, 1, outputs)

(*************************** InventoryModule.parse ************************)

\* parse up to the construction of TFStateInventory: the documents found
parse_tfstates(cfg) ==
    IF cfg.source_type = "local"
    THEN get_local_tfstates(store, cfg.search_pattern, runtime.pathlib_strict)
    ELSE get_s3_tfstates(cfg.s3_config, cfg.search_pattern, store,
                         runtime.boto3)

\* parse from `# Add hosts` on, with the host bindings applied before the
\* group bindings
parse_sink_hosts_vars_first(cfg, hosts, outputs) ==
    LET acc0 == [inventory |-> inventory, calls |-> << >>,
                 warnings |-> << >>]
        acc1 == AddHosts(acc0, hosts, 1, cfg)
        acc2 == add_hosts_vars(acc1, cfg, outputs)
    IN  add_groups_vars(acc2, cfg, outputs)

\* parse from `# Add hosts` on
parse_sink(cfg, hosts, outputs) ==
    LET acc0 == [inventory |-> inventory, calls |-> << >>,
                 warnings |-> << >>]
        acc1 == AddHosts(acc0, hosts, 1, cfg)
        acc2 == add_groups_vars(acc1, cfg, outputs)
    IN  add_hosts_vars(acc2, cfg, outputs)

Parse ==
    /\ Len(history) < MaxRuns
    /\ LET cfg == read_config(config, environ)
           src == parse_tfstates(cfg)
       IN
         /\ self_config' = cfg
         /\ io' = src.io
         /\ IF src.raised # NoRaise
            THEN /\ raised' = src.raised
                 /\ calls' = << >> /\ warnings' = << >>
                 /\ history' = Append(history, Run(cls_hosts, cls_outputs,
                                                   src.raised, << >>))
                 /\ UNCHANGED <<tfstates, cls_hosts, cls_outputs, inventory>>
            ELSE LET inv == NewTFStateInventory(cls_hosts, cls_outputs,
                                                src.tfstates)
                 IN
                 /\ tfstates' = src.tfstates
                 /\ cls_hosts' = inv.hosts
                 /\ cls_outputs' = inv.outputs
                 /\ raised' = inv.raised
                 /\ IF inv.raised # NoRaise
                    THEN /\ calls' = << >> /\ warnings' = << >>
                         /\ history' = Append(history,
                                Run(inv.hosts, inv.outputs, inv.raised, << >>))
                         /\ UNCHANGED inventory
                    ELSE LET acc == parse_sink(cfg, inv.hosts, inv.outputs)
                         IN  /\ calls' = acc.calls
                             /\ warnings' = acc.warnings
                             /\ inventory' = acc.inventory
                             /\ history' = Append(history,
                                    Run(inv.hosts, inv.outputs, NoRaise,
                                        acc.calls))
    /\ UNCHANGED <<config, environ, runtime, store, glob_vars, name_vars>>

(************************** the pure functions ****************************)

NotCalled == [raised |-> "<not called>", tokens |-> << >>]

GlobAlphabet == {"a", ".", "*", "/", "(", ")"}
NameAlphabet == {"n", "-", "1", "."}
Postfixes == {NoneStr, << >>, <<"_", "g">>}

GlobToRegex ==
    /\ pattern = NotCalled
    /\ pattern' = glob_to_regex(glob)
    /\ UNCHANGED <<glob, extract_vars, name_vars, parse_vars>>

GetHostGroupName ==
    /\ group_name = << >>
    /\ group_name' = <<get_host_group_name(hostname, postfix)>>
    /\ UNCHANGED <<hostname, postfix, extract_vars, glob_vars, parse_vars>>

(****************************** the inputs *********************************)

\* the dicts that hold key with one of values, or lack it
Opt(key, values) == {EmptyDict} \cup {key :> v : v \in values}

\* the sequences over pool of length lo..hi
Lists(pool, lo, hi) == UNION {[1..k -> pool] : k \in lo..hi}

HostA == <<"n", "-", "1">>
HostB == <<"n", "1">>
HostC == <<"a", ".", "b">>

Managed == <<"m", "a", "n", "a", "g", "e", "d">>

Resource(mode, type, provider, instances) ==
    [mode |-> mode, type |-> type, provider |-> provider,
     instances |-> instances]

Instance(network_interface) ==
    [attributes |-> [network_interface |-> network_interface]]

YcInstance(name, network_interface) ==
    [attributes |-> [hostname |-> name,
                     network_interface |-> network_interface]]

\* libvirt interfaces: with or without a host name, a network_id, a bridge
\* and an addresses list
LvInterfaces ==
    {h @@ n @@ b @@ a :
        h \in Opt("hostname", {HostA}),
        n \in Opt("network_id", {"", "net"}),
        b \in Opt("bridge", {"", "br0"}),
        a \in Opt("addresses", {<< >>, <<"10.0.0.1">>,
                                <<"10.0.0.2", "10.0.0.3">>})}

LvInstances ==
    {EmptyDict, [attributes |-> EmptyDict]}
    \cup {Instance(nis) : nis \in Lists(LvInterfaces, 0, MaxInterfaces)}

LvBridged == [hostname |-> HostA, bridge |-> "br0",
              addresses |-> <<"1.1.1.1">>]
LvNetwork == [hostname |-> HostB, network_id |-> "net",
              addresses |-> <<"10.0.0.1">>]
\* a bridged interface whose first address is the empty str
LvUnleased == [hostname |-> <<"b", "-", "0">>, bridge |-> "br0",
               addresses |-> <<"">>]

\* libvirt instances: two complete ones and the deficient shapes
LvSamples ==
    { Instance(<<LvBridged>>),
      Instance(<<LvNetwork, LvBridged>>),
      EmptyDict,
      [attributes |-> EmptyDict],
      Instance(<<[bridge |-> "br0", addresses |-> <<"1.1.1.1">>]>>),
      Instance(<<[hostname |-> HostA, bridge |-> "br0",
                  addresses |-> << >>]>>),
      Instance(<<[hostname |-> HostA, network_id |-> "net",
                  addresses |-> << >>]>>),
      Instance(<<LvBridged, [bridge |-> "br1", addresses |-> << >>]>>) }

YcBoth == [ip_address |-> "10.0.0.9", nat_ip_address |-> "2.2.2.2"]
YcPrivate == [ip_address |-> "10.0.0.8", nat_ip_address |-> ""]

\* yandex instances: two complete ones and the deficient shapes
YcSamples ==
    { YcInstance(HostC, <<YcBoth>>),
      YcInstance(HostB, <<YcPrivate>>),
      EmptyDict,
      [attributes |-> EmptyDict],
      [attributes |-> [hostname |-> HostC]],
      [attributes |-> [network_interface |-> <<YcBoth>>]],
      YcInstance(HostC, <<[nat_ip_address |-> "2.2.2.2"]>>) }

SampleInstances(provider) ==
    IF provider = LV THEN <<Instance(<<LvBridged>>)>>
    ELSE <<YcInstance(HostC, <<YcBoth>>)>>

\* resource entries with every field present, in and out of the allow-list
FilterResources ==
    {Resource(m, t, p, SampleInstances(p)) :
        m \in {Managed, << >>, <<"m", "a", "n">>, <<"d", "a", "t", "a">>},
        t \in {"libvirt_domain", "yandex_compute_instance", "libvirt", ""},
        p \in {LV, YC, "provider", ""}}

LvResource == Resource(Managed, "libvirt_domain", LV, SampleInstances(LV))
YcResource ==
    Resource(Managed, "yandex_compute_instance", YC, SampleInstances(YC))

\* the dict d without key
Without(d, key) == [k \in DOMAIN d \ {key} |-> d[k]]

\* resource entries that lack one field, next to complete ones
ShapeResources ==
    {LvResource, YcResource}
    \cup {Without(LvResource, k) :
             k \in {"mode", "type", "provider", "instances"}}
    \cup {Without(Resource(<<"d", "a", "t", "a">>, "libvirt_domain", LV,
                           << >>), "instances")}

ShapeDocuments ==
    {EmptyDict, [outputs |-> EmptyDict]}
    \cup {[resources |-> rs] : rs \in Lists(ShapeResources, 0, MaxResources)}

(************************** the specifications ****************************)

ExtractIdle ==
    /\ tfstates = << >> /\ cls_hosts = << >> /\ cls_outputs = EmptyDict
    /\ raised = NoRaise /\ history = << >>
GlobIdle == glob = << >> /\ pattern = NotCalled
NameIdle == hostname = << >> /\ postfix = NoneStr /\ group_name = << >>
ParseIdle ==
    /\ config = EmptyDict /\ self_config = EmptyDict
    /\ environ = EmptyDict /\ runtime = EmptyDict
    /\ store = << >> /\ inventory = EmptyDict /\ calls = << >>
    /\ io = << >> /\ warnings = << >>

\* the state of a process that has imported the plugin and constructed
\* nothing yet
Imported ==
    /\ cls_hosts = << >> /\ cls_outputs = EmptyDict
    /\ raised = NoRaise /\ history = << >>

InitGlob ==
    /\ glob \in Strings(GlobAlphabet, MaxGlobLen)
    /\ pattern = NotCalled
    /\ ExtractIdle /\ NameIdle /\ ParseIdle

SpecGlob == InitGlob /\ [][GlobToRegex]_vars

InitName ==
    /\ hostname \in Strings(NameAlphabet, MaxNameLen)
    /\ postfix \in Postfixes
    /\ group_name = << >>
    /\ ExtractIdle /\ GlobIdle /\ ParseIdle

SpecName == InitName /\ [][GetHostGroupName]_vars

\* one libvirt resource holding one instance
InitLv ==
    /\ tfstates \in {<<[resources |->
                          <<Resource(Managed, "libvirt_domain", LV, <<i>>)>>]>> :
                        i \in LvInstances}
    /\ Imported /\ GlobIdle /\ NameIdle /\ ParseIdle

SpecLv == InitLv /\ [][Construct]_vars

\* one resource of either provider holding up to MaxInstances instances
InitInstances ==
    /\ tfstates \in
         {<<[resources |-> <<Resource(Managed, "libvirt_domain", LV, is)>>]>> :
             is \in Lists(LvSamples, 1, MaxInstances)}
         \cup
         {<<[resources |->
               <<Resource(Managed, "yandex_compute_instance", YC, is)>>]>> :
             is \in Lists(YcSamples, 1, MaxInstances)}
    /\ Imported /\ GlobIdle /\ NameIdle /\ ParseIdle

SpecInstances == InitInstances /\ [][Construct]_vars

\* one document of up to MaxResources complete resource entries
InitFilter ==
    /\ tfstates \in {<<[resources |-> rs]>> :
                        rs \in Lists(FilterResources, 1, MaxResources)}
    /\ Imported /\ GlobIdle /\ NameIdle /\ ParseIdle

SpecFilter == InitFilter /\ [][Construct]_vars

\* up to MaxDocs documents, some without `resources`, some holding
\* entries that lack a field
InitShape ==
    /\ tfstates \in Lists(ShapeDocuments, 1, MaxDocs)
    /\ Imported /\ GlobIdle /\ NameIdle /\ ParseIdle

SpecShape == InitShape /\ [][Construct]_vars

\* an `outputs` section: k1 and k2, each absent, without 'value', or with
\* one
OutputSections ==
    {a @@ b :
        a \in Opt("k1", {EmptyDict, [value |-> "v1"], [value |-> "v2"]}),
        b \in Opt("k2", {EmptyDict, [value |-> "v3"]})}

\* documents with and without an `outputs` section
OutputDocuments ==
    {[resources |-> << >>]}
    \cup {[resources |-> << >>, outputs |-> o] : o \in OutputSections}

\* TFStateInventory(tfstates) for a document list chosen by the caller
ConstructOver ==
    /\ Len(history) < MaxRuns
    /\ \E docs \in Lists(OutputDocuments, 0, MaxDocs) :
           LET inv == NewTFStateInventory(cls_hosts, cls_outputs, docs)
           IN  /\ tfstates' = docs
               /\ cls_hosts' = inv.hosts
               /\ cls_outputs' = inv.outputs
               /\ raised' = inv.raised
               /\ history' = Append(history, Run(inv.hosts, inv.outputs,
                                                 inv.raised, << >>))
    /\ UNCHANGED <<glob_vars, name_vars, parse_vars>>

\* a process that constructs TFStateInventory over one document list after
\* another
InitOutputs == ExtractIdle /\ GlobIdle /\ NameIdle /\ ParseIdle

SpecOutputs == InitOutputs /\ [][ConstructOver]_vars

(****************************** the main run ******************************)

PatternAny == <<"*", "*", "/", "*", ".", "a">>
PatternDir == <<"a", "/", "*">>
PatternFused == <<"a", "*", "*", "/", "*">>
PatternParen == <<"a", "/", "(", "*">>

\* the s3_config of a configuration file: none, or a dict with some of
\* endpoint, bucket and access_key
FileS3Configs ==
    {<< >>}
    \cup {<<e @@ b @@ a>> :
             e \in Opt("endpoint", {"https://file"}),
             b \in Opt("bucket", {"file-bucket"}),
             a \in Opt("access_key", {"file-key"})}

\* os.environ: each variable unset, empty or set
Environs ==
    {e @@ a @@ w :
        e \in Opt("TFSTATE_S3_ENDPOINT", {"", "https://env"}),
        a \in Opt("TFSTATE_S3_ACCESS_KEY", {"", "tf-key"}),
        w \in Opt("AWS_ACCESS_KEY_ID", {"aws-key"})}

\* read_config, called once on a configuration file
ReadConfig ==
    /\ DOMAIN self_config = {}
    /\ self_config' = read_config(config, environ)
    /\ UNCHANGED <<config, environ, runtime, store, inventory, calls, io,
                   warnings, extract_vars, glob_vars, name_vars>>

InitConfig ==
    /\ \E f \in FileS3Configs :
           config = [source_type |-> "s3", search_pattern |-> PatternDir,
                     s3_config |-> f]
    /\ environ \in Environs
    /\ self_config = EmptyDict
    /\ runtime = EmptyDict /\ store = << >> /\ inventory = EmptyDict
    /\ calls = << >> /\ io = << >> /\ warnings = << >>
    /\ ExtractIdle /\ GlobIdle /\ NameIdle

SpecConfig == InitConfig /\ [][ReadConfig]_vars

GroupA == <<"n", "_", "g">>
GroupNone == <<"b", "_", "g">>

DocLv ==
    [resources |->
        <<Resource(Managed, "libvirt_domain", LV,
                   <<Instance(<<LvBridged>>),
                     Instance(<<LvNetwork, LvBridged>>),
                     Instance(<<LvUnleased>>)>>)>>,
     outputs |-> [k1 |-> [value |-> "v1"]]]

DocYc ==
    [resources |->
        <<Resource(Managed, "yandex_compute_instance", YC,
                   <<YcInstance(HostC, <<YcBoth>>),
                     YcInstance(HostB, <<YcPrivate>>)>>)>>,
     outputs |-> [k1 |-> [value |-> "v2"], k2 |-> EmptyDict]]

DocOutputs == [outputs |-> [k2 |-> [value |-> "v3"]]]

Entry(key, kind, body) == [key |-> key, kind |-> kind, body |-> body]

\* what the store can hold: state files, a file that is no JSON, a
\* directory
Entries ==
    { Entry(<<"a", "/", "b", ".", "a">>, "file", <<DocLv>>),
      Entry(<<"a", "/", "n", ".", "a">>, "file", <<DocYc>>),
      Entry(<<"b", ".", "a">>, "file", <<DocOutputs>>),
      Entry(<<"a", "/", "a", ".", "a">>, "file", << >>),
      Entry(<<"a">>, "dir", << >>) }

Stores ==
    {st \in Lists(Entries, 0, MaxDocs) :
        \A i, j \in DOMAIN st : i # j => st[i].key # st[j].key}

Options(source_type, search_pattern, public, groups, bindings) ==
    [source_type |-> source_type,
     search_pattern |-> search_pattern,
     local_path |-> "/srv/terraform",
     s3_config |-> << >>,
     collect_public_ips |-> public,
     create_hosts_groups |-> groups,
     hosts_groups_postfix |-> <<"_", "g">>,
     group_variables_from_output |->
         IF bindings THEN << <<GroupA, <<"k1", "k9">> >>,
                             <<GroupNone, <<"k1">> >> >>
         ELSE << >>,
     host_variables_from_output |->
         IF bindings THEN << <<HostC, <<"k2", "k1">> >> >> ELSE << >>]

Configs ==
    {Options(t, p, public, groups, bindings) :
        t \in {"local", "s3"},
        p \in {PatternAny, PatternDir, PatternFused, PatternParen},
        public \in BOOLEAN, groups \in BOOLEAN, bindings \in BOOLEAN}

S3Environ ==
    [TFSTATE_S3_ENDPOINT |-> "https://s3", TFSTATE_S3_BUCKET |-> "tf"]

\* the process: its environment and its interpreter
Processes ==
    { <<S3Environ, [boto3 |-> TRUE, pathlib_strict |-> TRUE]>>,
      <<S3Environ, [boto3 |-> TRUE, pathlib_strict |-> FALSE]>>,
      <<EmptyDict, [boto3 |-> FALSE, pathlib_strict |-> TRUE]>> }

All == <<"a", "l", "l">>
Ungrouped == <<"u", "n", "g", "r", "o", "u", "p", "e", "d">>

Init ==
    /\ config \in Configs
    /\ self_config = EmptyDict
    /\ store \in Stores
    /\ \E process \in Processes :
           environ = process[1] /\ runtime = process[2]
    /\ inventory = [hosts |-> {}, groups |-> {All, Ungrouped}]
    /\ calls = << >> /\ io = << >> /\ warnings = << >>
    /\ tfstates = << >>
    /\ Imported /\ GlobIdle /\ NameIdle

Next == Parse

Spec == Init /\ [][Next]_vars

(******************************* the claims *******************************)

RECURSIVE Concat(_)
Concat(lists) ==
    IF Len(lists) = 0 THEN << >> ELSE lists[1] \o Concat(Tail(lists))

\* C1: two runs over the same document list give the same hosts, the same
\* outputs and the same sink calls; nothing of the first run is carried
\* into the second.
C1_RunsAreIsolated ==
    Len(history) = 2 =>
        /\ history[2].hosts = history[1].hosts
        /\ history[2].outputs = history[1].outputs
        /\ history[2].calls = history[1].calls

ExactlyAllowed(resource) ==
    /\ resource["mode"] = Managed
    /\ resource["type"] \in {"libvirt_domain", "yandex_compute_instance"}
    /\ resource["provider"] \in {LV, YC}

\* C2: the hosts collected are those of the resource entries whose mode is
\* exactly 'managed' and whose type and provider are exactly allowed ones;
\* every other entry gives no host and no error.
C2_AllowListIsExact ==
    Len(history) >= 1 =>
        /\ history[1].raised = NoRaise
        /\ history[1].hosts =
               LET resources == tfstates[1]["resources"]
               IN  Concat([i \in 1..Len(resources) |->
                       IF ExactlyAllowed(resources[i])
                       THEN InstancesHosts(resources[i]["instances"],
                                           resources[i]["provider"], 1)
                       ELSE << >>])

TheInstance == tfstates[1]["resources"][1]["instances"][1]

\* the instance has a first interface naming the host and every interface
\* has a non-empty addresses list
FullyAddressed(instance_data) ==
    /\ "attributes" \in DOMAIN instance_data
    /\ "network_interface" \in DOMAIN instance_data["attributes"]
    /\ LET nis == instance_data["attributes"]["network_interface"]
       IN  /\ Len(nis) > 0
           /\ "hostname" \in DOMAIN nis[1]
           /\ \A i \in 1..Len(nis) :
                  "addresses" \in DOMAIN nis[i]
                  /\ Len(nis[i]["addresses"]) > 0

Qualifies(interface, keys) == \E k \in keys : Get(interface, k, "") # ""

\* the first address of the first interface that has one of keys non-empty
FirstAddress(nis, keys) ==
    IF \E i \in 1..Len(nis) : Qualifies(nis[i], keys)
    THEN LET i == CHOOSE j \in 1..Len(nis) :
                      /\ Qualifies(nis[j], keys)
                      /\ \A k \in 1..(j - 1) : ~Qualifies(nis[k], keys)
         IN  nis[i]["addresses"][1]
    ELSE None

NatKeys == {"macvtap", "bridge", "vepa", "passthrough"}

\* C3: a libvirt instance whose interfaces all have addresses gives a host
\* whose ip_address is the first address of the first interface with a
\* non-empty network_id and whose nat_ip_address is that of the first
\* interface with a non-empty macvtap, bridge, vepa or passthrough.
C3_LvFirstMatchAddresses ==
    (Len(history) >= 1 /\ FullyAddressed(TheInstance)) =>
        LET nis == TheInstance["attributes"]["network_interface"]
        IN  history[1].hosts =
                <<TFStateHost(nis[1]["hostname"],
                              FirstAddress(nis, {"network_id"}),
                              FirstAddress(nis, NatKeys))>>

Selected(host) ==
    IF config.collect_public_ips THEN host.nat_ip_address
    ELSE host.ip_address

Retained(host) == Selected(host) # None /\ Selected(host) # ""

IsRegistration(c) ==
    c.op = "add_host" \/ (c.op = "set_variable" /\ c.key = "ansible_host")
IsAddGroup(c) == c.op = "add_group"
IsAddChild(c) == c.op = "add_child"

RetainedNames ==
    Concat([i \in 1..Len(cls_hosts) |->
               IF Retained(cls_hosts[i]) THEN <<cls_hosts[i].name>>
               ELSE << >>])

\* C4: after a parse that completes, the add_host and ansible_host calls
\* are exactly those of the hosts whose selected address is present, each
\* with that address, and the add_group and add_child calls are made for
\* those hosts only, and only when create_hosts_groups is true.
C4_OnlyAddressedHostsRegistered ==
    (Len(history) >= 1 /\ raised = NoRaise) =>
        /\ SelectSeq(calls, IsRegistration) =
               Concat([i \in 1..Len(cls_hosts) |->
                   IF Retained(cls_hosts[i])
                   THEN <<Call("add_host", << >>, cls_hosts[i].name, "", "",
                               TRUE),
                          Call("set_variable", << >>, cls_hosts[i].name,
                               "ansible_host", Selected(cls_hosts[i]), TRUE)>>
                   ELSE << >>])
        /\ LET children == SelectSeq(calls, IsAddChild)
           IN  /\ [i \in 1..Len(children) |-> children[i].name] =
                      IF config.create_hosts_groups THEN RetainedNames
                      ELSE << >>
               /\ Len(SelectSeq(calls, IsAddGroup)) = Len(children)

C4_Witness ==
    /\ Len(history) >= 1 /\ raised = NoRaise
    /\ config.create_hosts_groups
    /\ \E i \in 1..Len(cls_hosts) : Selected(cls_hosts[i]) = None
    /\ \E i \in 1..Len(cls_hosts) : Selected(cls_hosts[i]) = ""
    /\ \E i \in 1..Len(cls_hosts) : Retained(cls_hosts[i])
    /\ \E i \in 1..Len(calls) : IsAddChild(calls[i])

DeficientResource(resource) ==
    ~({"mode", "type", "provider", "instances"} \subseteq DOMAIN resource)

ExpectedOfDocument(doc) ==
    IF "resources" \notin DOMAIN doc THEN << >>
    ELSE LET resources == doc["resources"]
         IN  Concat([i \in 1..Len(resources) |->
                 IF DeficientResource(resources[i])
                    \/ ResourceSkipped(resources[i])
                 THEN << >>
                 ELSE InstancesHosts(resources[i]["instances"],
                                     resources[i]["provider"], 1)])

\* C5: extraction raises nothing when a document has no `resources` or a
\* resource entry lacks mode, type, provider or instances; such a document
\* or entry gives no host and the hosts of all others are collected.
C5_MissingFieldsAreSkipped ==
    Len(history) >= 1 =>
        /\ history[1].raised = NoRaise
        /\ history[1].hosts =
               Concat([i \in 1..Len(tfstates) |->
                          ExpectedOfDocument(tfstates[i])])

\* i is the first interface of nis that has one of keys non-empty
FirstQualifying(nis, keys, i) ==
    /\ Qualifies(nis[i], keys)
    /\ \A k \in 1..(i - 1) : ~Qualifies(nis[k], keys)

\* the instance lacks attributes, network_interface or the provider's host
\* name field, or (libvirt) the interface an address is to be taken from,
\* the first that qualifies for a class, has an empty addresses list
DeficientInstance(instance_data, provider) ==
    \/ "attributes" \notin DOMAIN instance_data
    \/ "network_interface" \notin DOMAIN instance_data["attributes"]
    \/ LET attributes == instance_data["attributes"]
           nis == attributes["network_interface"]
       IN  IF provider = YC THEN "hostname" \notin DOMAIN attributes
           ELSE \/ Len(nis) = 0
                \/ "hostname" \notin DOMAIN nis[1]
                \/ \E keys \in {{"network_id"}, NatKeys} :
                       \E i \in 1..Len(nis) :
                           /\ FirstQualifying(nis, keys, i)
                           /\ "addresses" \in DOMAIN nis[i]
                           /\ Len(nis[i]["addresses"]) = 0

\* C6: in a recognized resource a deficient instance gives no host and
\* raises nothing, and every other instance gives its host, in order.
C6_DeficientInstancesAreSkipped ==
    Len(history) >= 1 =>
        LET resource == tfstates[1]["resources"][1]
            instances == resource["instances"]
        IN  /\ history[1].raised = NoRaise
            /\ history[1].hosts =
                   Concat([i \in 1..Len(instances) |->
                       IF DeficientInstance(instances[i],
                                            resource["provider"])
                       THEN << >>
                       ELSE parse_host(instances[i], resource["provider"])])

\* the number of digits at the end of name
RECURSIVE TrailingDigits(_)
TrailingDigits(name) ==
    IF Len(name) > 0 /\ name[Len(name)] \in Digits
    THEN 1 + TrailingDigits(SubSeq(name, 1, Len(name) - 1))
    ELSE 0

\* name without its trailing digits and without one dash before them
WithoutNumericSuffix(name) ==
    LET n == TrailingDigits(name)
        head == SubSeq(name, 1, Len(name) - n)
    IN  IF n > 0 /\ Len(head) > 0 /\ head[Len(head)] = "-"
        THEN SubSeq(head, 1, Len(head) - 1)
        ELSE head

\* C7: the group name is the sanitized host name without its trailing
\* digits (and the one dash before them, if any), followed by the postfix.
C7_GroupNameStripsTrailingDigits ==
    group_name # << >> =>
        group_name[1] =
            sanitize_group_name(
                WithoutNumericSuffix(hostname)
                \o (IF postfix = NoneStr THEN << >> ELSE postfix))

\* some '**' of g has another character of its component next to it
Fused(g) ==
    \E i \in 1..(Len(g) - 1) :
        /\ g[i] = "*" /\ g[i + 1] = "*"
        /\ \/ i > 1 /\ g[i - 1] # "/"
           \/ i + 2 <= Len(g) /\ g[i + 2] # "/"

\* g with every '*' replaced by name and every '**' component by dirs
Instantiated(g, name, dirs) ==
    Replace(Replace(g, DoubleStar, dirs), <<"*">>, name)

\* C8: a pattern of the grammar compiles without raising and its matcher
\* accepts the paths made by putting word characters for each '*' and
\* word-character components for each '**'.
C8_GrammarPatternsCompileAndMatch ==
    (pattern # NotCalled /\ ~Fused(glob)) =>
        /\ pattern.raised = NoRaise
        /\ Matches(pattern, Instantiated(glob, <<"a">>, <<"a">>))
        /\ Matches(pattern, Instantiated(glob, <<"a", "b">>,
                                         <<"a", "/", "b">>))

\* C9: a pattern with '**' next to another character inside one component
\* is rejected with AnsibleParserError and gives no matcher.
C9_FusedDoubleStarRejected ==
    (pattern # NotCalled /\ Fused(glob)) =>
        pattern.raised = "AnsibleParserError" /\ pattern.tokens = << >>

C9_Witness ==
    /\ pattern.raised = "AnsibleParserError"
    /\ Fused(glob)
    /\ \E i \in 1..Len(glob) : glob[i] = "/"
    /\ glob[Len(glob)] = "*" /\ glob[1] # "*"

\* the process can reach the store the configuration names
SourceReachable ==
    config.source_type = "s3" =>
        runtime.boto3 /\ "TFSTATE_S3_ENDPOINT" \in DOMAIN environ

\* C10: with either source type a search_pattern that has a fused '**'
\* ends the run with AnsibleParserError before any document is read or
\* fetched and before any sink call.
C10_BadPatternFailsBeforeAnyRead ==
    (Len(history) >= 1 /\ Fused(config.search_pattern) /\ SourceReachable) =>
        /\ raised = "AnsibleParserError"
        /\ io = << >>
        /\ calls = << >>

\* the documents of docs whose `outputs` has an entry for k with a 'value'
Carrying(docs, k) ==
    {i \in 1..Len(docs) :
        /\ "outputs" \in DOMAIN docs[i]
        /\ k \in DOMAIN docs[i]["outputs"]
        /\ "value" \in DOMAIN docs[i]["outputs"][k]}

\* for every key some document carries, the value of the last such document
LastDocumentWins(docs) ==
    LET keys == {k \in {"k1", "k2"} : Carrying(docs, k) # {}}
    IN  [k \in keys |->
            LET last == CHOOSE i \in Carrying(docs, k) :
                            \A j \in Carrying(docs, k) : j <= i
            IN  docs[last]["outputs"][k]["value"]]

\* C11: after a construction over a document list the outputs map holds,
\* for each key, the value of the last document of the list that carries
\* it, and no key that no document of the list carries.
C11_LastDocumentWins ==
    Len(history) >= 1 =>
        /\ history[Len(history)].raised = NoRaise
        /\ history[Len(history)].outputs = LastDocumentWins(tfstates)

\* the (what, target, output_key) triples of one binding map, in its order
Bindings(what, data) ==
    Concat([i \in 1..Len(data) |->
               [j \in 1..Len(data[i][2]) |->
                   [what |-> what, name |-> data[i][1],
                    key |-> data[i][2][j]]]])

AllBindings ==
    Bindings("group", config.group_variables_from_output)
    \o Bindings("host", config.host_variables_from_output)

\* the sink accepts name as the target of set_variable
Accepted(name) == name \in inventory.groups \cup inventory.hosts

IsBindingCall(c) == c.op = "set_variable" /\ c.key # "ansible_host"

\* C12: after a parse that completes, every binding whose key is in the
\* outputs map and whose target the sink accepts has exactly one
\* set_variable(target, key, outputs[key]); every binding whose key is
\* absent or whose target is rejected has a warning and sets nothing; no
\* binding of either map is left out.
C12_BindingsNeverAbort ==
    (Len(history) >= 1 /\ raised = NoRaise) =>
        LET b == AllBindings IN
        /\ SelectSeq(calls, IsBindingCall) =
               Concat([i \in 1..Len(b) |->
                   IF b[i].key \in DOMAIN cls_outputs
                   THEN <<Call("set_variable", << >>, b[i].name, b[i].key,
                               cls_outputs[b[i].key], Accepted(b[i].name))>>
                   ELSE << >>])
        /\ warnings =
               Concat([i \in 1..Len(b) |->
                   IF b[i].key \notin DOMAIN cls_outputs
                   THEN <<[what |-> b[i].what, name |-> b[i].name,
                           key |-> b[i].key, why |-> "not found in outputs"]>>
                   ELSE IF ~Accepted(b[i].name)
                   THEN <<[what |-> b[i].what, name |-> b[i].name,
                           key |-> b[i].key, why |-> "AnsibleError"]>>
                   ELSE << >>])

\* a run in which a key is absent, a target is rejected, and a binding
\* that follows an absent key of the same target is set
C12_Witness ==
    /\ Len(history) >= 1 /\ raised = NoRaise
    /\ \E i \in 1..Len(warnings) : warnings[i].why = "AnsibleError"
    /\ \E i, j \in 1..Len(AllBindings) :
           /\ i < j
           /\ AllBindings[i].name = AllBindings[j].name
           /\ AllBindings[i].key \notin DOMAIN cls_outputs
           /\ AllBindings[j].key \in DOMAIN cls_outputs
           /\ Accepted(AllBindings[j].name)
           /\ \E c \in 1..Len(calls) :
                  /\ calls[c].name = AllBindings[j].name
                  /\ calls[c].key = AllBindings[j].key
                  /\ calls[c].ok

\* the first variable of envs, in order, that is set and not empty
FirstSet(envs) ==
    IF \E i \in 1..Len(envs) : Get(environ, envs[i], "") # ""
    THEN LET i == CHOOSE j \in 1..Len(envs) :
                      /\ Get(environ, envs[j], "") # ""
                      /\ \A k \in 1..(j - 1) : Get(environ, envs[k], "") = ""
         IN  <<environ[envs[i]]>>
    ELSE << >>

\* what the configuration file gives for key of s3_config, None if nothing
FileValue(key) ==
    IF config.s3_config = << >> THEN None
    ELSE Get(config.s3_config[1], key, None)

\* C13: after read_config each key of s3_config holds the value of the
\* first of its environment variables that is set, and the value of the
\* configuration file when none is set; it is None only when neither
\* gives it.
C13_EnvironmentIsFallback ==
    DOMAIN self_config # {} =>
        \A i \in DOMAIN S3_ENV_MAP :
            LET key == S3_ENV_MAP[i][1]
                env == FirstSet(S3_ENV_MAP[i][2])
            IN  Get(self_config.s3_config, key, None) =
                    IF env # << >> THEN env[1] ELSE FileValue(key)

\* the calls parse makes for one host of the aggregated list
RegistrationOf(host) ==
    IF ~Retained(host) THEN << >>
    ELSE <<Call("add_host", << >>, host.name, "", "", TRUE),
           Call("set_variable", << >>, host.name, "ansible_host",
                Selected(host), TRUE)>>
         \o (IF config.create_hosts_groups
             THEN LET group == get_host_group_name(
                                   host.name, config.hosts_groups_postfix)
                  IN  <<Call("add_group", group, << >>, "", "", TRUE),
                        Call("add_child", group, host.name, "", "", TRUE)>>
             ELSE << >>)

Registrations ==
    Concat([i \in 1..Len(cls_hosts) |-> RegistrationOf(cls_hosts[i])])

\* the targets of one binding map
Targets(data) == {data[i][1] : i \in 1..Len(data)}

\* C14: the calls of a parse that completes are, host by host in list
\* order, add_host, set_variable(ansible_host), add_group, add_child,
\* followed by the output-binding set_variable calls, those of the group
\* bindings before those of the host bindings.
C14_SinkCallOrder ==
    (Len(history) >= 1 /\ raised = NoRaise) =>
        LET n == Len(Registrations)
            rest == SubSeq(calls, n + 1, Len(calls))
        IN  /\ Len(calls) >= n
            /\ SubSeq(calls, 1, n) = Registrations
            /\ \A i \in 1..Len(rest) : IsBindingCall(rest[i])
            /\ \A i, j \in 1..Len(rest) :
                   (/\ rest[i].name
                          \in Targets(config.host_variables_from_output)
                    /\ rest[j].name
                          \in Targets(config.group_variables_from_output))
                   => j < i

\* a run that registers two hosts with their groups and then sets a group
\* binding and a host binding
C14_Witness ==
    /\ Len(history) >= 1 /\ raised = NoRaise
    /\ config.create_hosts_groups
    /\ Len(SelectSeq(calls, IsAddChild)) >= 2
    /\ \E i, j \in 1..Len(calls) :
           /\ IsBindingCall(calls[i]) /\ IsBindingCall(calls[j])
           /\ calls[i].name \in Targets(config.group_variables_from_output)
           /\ calls[j].name \in Targets(config.host_variables_from_output)

====
